---- MODULE Spec2Model ----
(***************************************************************************)
(* QWindowsPipeWriter (src/corelib/io/qwindowspipewriter.cpp): the owner   *)
(* thread calls write(), setHandle(), stop() and consumePendingAndEmit();  *)
(* a thread-pool thread runs waitCallback(); the OS completes the          *)
(* overlapped write requests.  Every step that runs under the QMutex is    *)
(* one action or a chain of actions holding `mutex`; the statements the    *)
(* code runs outside the lock are actions of their own.                    *)
(*                                                                         *)
(* Bytes are tagged with their position in the stream of write()           *)
(* arguments (the k-th byte ever passed to write() is the number k): the   *)
(* code never inspects a byte, so ordering and duplication are visible on  *)
(* the tags.                                                               *)
(***************************************************************************)
EXTENDS Integers, Sequences, FiniteSets, TLC

MaxBytes == 3
MaxRequests == 2

Owner == "owner"
Workers == {"worker"}
Threads == {Owner} \cup Workers
NoThread == "none"

INVALID_HANDLE_VALUE == "INVALID_HANDLE_VALUE"
PipeHandle == "hPipeWriteEnd"

ERROR_SUCCESS == "ERROR_SUCCESS"
ERROR_IO_PENDING == "ERROR_IO_PENDING"
ERROR_IO_INCOMPLETE == "ERROR_IO_INCOMPLETE"
ERROR_PIPE_NOT_CONNECTED == "ERROR_PIPE_NOT_CONNECTED"
ERROR_OPERATION_ABORTED == "ERROR_OPERATION_ABORTED"

VARIABLES
    handle,                   \* HANDLE handle
    writeBuffer,              \* QRingBuffer writeBuffer: sequence of chunks
    pendingBytesWrittenValue, \* qint64 pendingBytesWrittenValue
    lastError,                \* DWORD lastError
    stopped,                  \* bool stopped
    writeSequenceStarted,     \* bool writeSequenceStarted
    bytesWrittenPending,      \* bool bytesWrittenPending
    winEventActPosted,        \* bool winEventActPosted
    mutex,                    \* QMutex mutex: the thread holding it
    syncHandle,               \* manual-reset event syncHandle: signaled?
    eventHandle,              \* auto-reset event eventHandle: signaled?
    waitObject,               \* PTP_WAIT waitObject: a wait is registered?
    overlapped,               \* OVERLAPPED overlapped: status of the last request
    osRequests,               \* write requests pending at the OS, in issue order
    postedEvents,             \* QEvent::WinEventAct events in the owner's queue
    pc,                       \* position of each thread
    allowWinActPosting,       \* consumePendingAndEmit: its argument
    numberOfBytesWritten,     \* consumePendingAndEmit: the snapshot it emits
    cbResult,                 \* waitCallback: errorCode, numberOfBytesTransfered
    handedUpTo,               \* history: the bytes 1..handedUpTo were passed to WriteFile
    handedInOrder,            \* history: every WriteFile continued where the last ended
    totalWritten,             \* history: bytes passed to write()
    totalEnqueued,            \* history: bytes appended to writeBuffer
    totalConfirmed,           \* history: bytes confirmed by successful completions
    emitted,                  \* history: the counts of the bytesWritten emissions
    suppressed,               \* history: bytes drained while stopped, not emitted
    batch,                    \* history: byte counts confirmed since the last drain
    drained,                  \* history: the byte counts the last drain took
    stopReturned              \* history: a stop() that stopped the writer has returned

writerVars == <<handle, writeBuffer, pendingBytesWrittenValue, lastError, stopped,
                writeSequenceStarted, bytesWrittenPending, winEventActPosted>>
osVars == <<syncHandle, eventHandle, waitObject, overlapped, osRequests, postedEvents>>
localVars == <<allowWinActPosting, numberOfBytesWritten, cbResult>>
histVars == <<handedUpTo, handedInOrder, totalWritten, totalEnqueued, totalConfirmed,
              emitted, suppressed, batch, drained, stopReturned>>
vars == <<writerVars, osVars, localVars, histVars, mutex, pc>>

NoResult == [errorCode |-> ERROR_SUCCESS, bytes |-> 0]

\* QRingBuffer::size()
BufSize(buf) == IF buf = <<>> THEN 0
                ELSE LET S[i \in 0..Len(buf)] == IF i = 0 THEN 0 ELSE S[i - 1] + Len(buf[i])
                     IN S[Len(buf)]

\* QRingBuffer::free(bytes): drops the first `bytes` bytes, whole chunks first
RECURSIVE BufFree(_, _)
BufFree(buf, n) ==
    IF n = 0 \/ buf = <<>> THEN buf
    ELSE IF Len(Head(buf)) <= n THEN BufFree(Tail(buf), n - Len(Head(buf)))
    ELSE <<SubSeq(Head(buf), n + 1, Len(Head(buf)))>> \o Tail(buf)

\* the QByteArray passed to the next write() of n bytes
NextBytes(n) == [i \in 1..n |-> totalWritten + i]

Init ==
    /\ handle \in {INVALID_HANDLE_VALUE, PipeHandle}
    /\ writeBuffer = <<>>
    /\ pendingBytesWrittenValue = 0
    /\ lastError = ERROR_SUCCESS
    /\ stopped = TRUE
    /\ writeSequenceStarted = FALSE
    /\ bytesWrittenPending = FALSE
    /\ winEventActPosted = FALSE
    /\ mutex = NoThread
    /\ syncHandle = FALSE
    /\ eventHandle = FALSE
    /\ waitObject = FALSE
    /\ overlapped = NoResult
    /\ osRequests = <<>>
    /\ postedEvents = 0
    /\ pc = [t \in Threads |-> "idle"]
    /\ allowWinActPosting = FALSE
    /\ numberOfBytesWritten = 0
    /\ cbResult = [w \in Workers |-> NoResult]
    /\ handedUpTo = 0
    /\ handedInOrder = TRUE
    /\ totalWritten = 0
    /\ totalEnqueued = 0
    /\ totalConfirmed = 0
    /\ emitted = <<>>
    /\ suppressed = 0
    /\ batch = <<>>
    /\ drained = <<>>
    /\ stopReturned = FALSE

----------------------------------------------------------------------------
\* writeCompleted() that assigns the byte count instead of adding it
writeCompleted_OverwritesCount(errorCode, n) ==
    IF errorCode = ERROR_SUCCESS
    THEN /\ bytesWrittenPending' = TRUE
         /\ pendingBytesWrittenValue' = n
         /\ writeBuffer' = BufFree(writeBuffer, n)
         /\ totalConfirmed' = totalConfirmed + n
         /\ batch' = Append(batch, n)
         /\ UNCHANGED lastError
    ELSE /\ lastError' = errorCode
         /\ writeBuffer' = <<>>
         /\ UNCHANGED <<bytesWrittenPending, pendingBytesWrittenValue, totalConfirmed,
                        batch>>

\* writeCompleted() that records the error but keeps the buffered bytes
writeCompleted_KeepsBuffer(errorCode, n) ==
    IF errorCode = ERROR_SUCCESS
    THEN /\ bytesWrittenPending' = TRUE
         /\ pendingBytesWrittenValue' = pendingBytesWrittenValue + n
         /\ writeBuffer' = BufFree(writeBuffer, n)
         /\ totalConfirmed' = totalConfirmed + n
         /\ batch' = Append(batch, n)
         /\ UNCHANGED lastError
    ELSE /\ lastError' = errorCode
         /\ UNCHANGED <<writeBuffer, bytesWrittenPending, pendingBytesWrittenValue,
                        totalConfirmed, batch>>

\* writeCompleted(): the accounting of one finished request; its result is
\* writeCompletedOk
writeCompletedOk(errorCode) == errorCode = ERROR_SUCCESS

writeCompleted(errorCode, n) ==
    IF errorCode = ERROR_SUCCESS
    THEN /\ bytesWrittenPending' = TRUE
         /\ pendingBytesWrittenValue' = pendingBytesWrittenValue + n
         /\ writeBuffer' = BufFree(writeBuffer, n)
         /\ totalConfirmed' = totalConfirmed + n
         /\ batch' = Append(batch, n)
         /\ UNCHANGED lastError
    ELSE /\ lastError' = errorCode
         /\ writeBuffer' = <<>>
         /\ UNCHANGED <<bytesWrittenPending, pendingBytesWrittenValue, totalConfirmed,
                        batch>>

\* writeImpl() that clears `stopped` only on the path that invokes the pump
writeImpl_KeepsStoppedWithoutHandle(n) ==
    /\ pc[Owner] = "idle"
    /\ mutex = NoThread
    /\ totalWritten + n <= MaxBytes
    /\ totalWritten' = totalWritten + n
    /\ IF lastError # ERROR_SUCCESS
       THEN UNCHANGED <<writeBuffer, totalEnqueued, stopped, mutex, pc>>
       ELSE /\ writeBuffer' = Append(writeBuffer, NextBytes(n))
            /\ totalEnqueued' = totalEnqueued + n
            /\ IF writeSequenceStarted
               THEN UNCHANGED <<stopped, mutex, pc>>
               ELSE IF handle # INVALID_HANDLE_VALUE
                    THEN /\ stopped' = FALSE
                         /\ mutex' = Owner
                         /\ pc' = [pc EXCEPT ![Owner] = "pump"]
                    ELSE UNCHANGED <<stopped, mutex, pc>>
    /\ UNCHANGED <<handle, pendingBytesWrittenValue, lastError, writeSequenceStarted,
                   bytesWrittenPending, winEventActPosted>>
    /\ UNCHANGED <<osVars, localVars>>
    /\ UNCHANGED <<handedUpTo, handedInOrder, totalConfirmed, emitted, suppressed, batch,
                   drained, stopReturned>>

\* writeImpl() that invokes the pump without the test of the handle
writeImpl_PumpsWithoutHandle(n) ==
    /\ pc[Owner] = "idle"
    /\ mutex = NoThread
    /\ totalWritten + n <= MaxBytes
    /\ totalWritten' = totalWritten + n
    /\ IF lastError # ERROR_SUCCESS
       THEN UNCHANGED <<writeBuffer, totalEnqueued, stopped, mutex, pc>>
       ELSE /\ writeBuffer' = Append(writeBuffer, NextBytes(n))
            /\ totalEnqueued' = totalEnqueued + n
            /\ IF writeSequenceStarted
               THEN UNCHANGED <<stopped, mutex, pc>>
               ELSE /\ stopped' = FALSE
                    /\ mutex' = Owner
                    /\ pc' = [pc EXCEPT ![Owner] = "pump"]
    /\ UNCHANGED <<handle, pendingBytesWrittenValue, lastError, writeSequenceStarted,
                   bytesWrittenPending, winEventActPosted>>
    /\ UNCHANGED <<osVars, localVars>>
    /\ UNCHANGED <<handedUpTo, handedInOrder, totalConfirmed, emitted, suppressed, batch,
                   drained, stopReturned>>

\* writeImpl() without the test of lastError
writeImpl_IgnoresLastError(n) ==
    /\ pc[Owner] = "idle"
    /\ mutex = NoThread
    /\ totalWritten + n <= MaxBytes
    /\ totalWritten' = totalWritten + n
    /\ writeBuffer' = Append(writeBuffer, NextBytes(n))
    /\ totalEnqueued' = totalEnqueued + n
    /\ IF writeSequenceStarted
       THEN UNCHANGED <<stopped, mutex, pc>>
       ELSE /\ stopped' = FALSE
            /\ IF handle # INVALID_HANDLE_VALUE
               THEN /\ mutex' = Owner
                    /\ pc' = [pc EXCEPT ![Owner] = "pump"]
               ELSE UNCHANGED <<mutex, pc>>
    /\ UNCHANGED <<handle, pendingBytesWrittenValue, lastError, writeSequenceStarted,
                   bytesWrittenPending, winEventActPosted>>
    /\ UNCHANGED <<osVars, localVars>>
    /\ UNCHANGED <<handedUpTo, handedInOrder, totalConfirmed, emitted, suppressed, batch,
                   drained, stopReturned>>

\* write() / writeImpl()
writeImpl(n) ==
    /\ pc[Owner] = "idle"
    /\ mutex = NoThread
    /\ totalWritten + n <= MaxBytes
    /\ totalWritten' = totalWritten + n
    /\ IF lastError # ERROR_SUCCESS
       THEN UNCHANGED <<writeBuffer, totalEnqueued, stopped, mutex, pc>>
       ELSE /\ writeBuffer' = Append(writeBuffer, NextBytes(n))
            /\ totalEnqueued' = totalEnqueued + n
            /\ IF writeSequenceStarted
               THEN UNCHANGED <<stopped, mutex, pc>>
               ELSE /\ stopped' = FALSE
                    /\ IF handle # INVALID_HANDLE_VALUE
                       THEN /\ mutex' = Owner
                            /\ pc' = [pc EXCEPT ![Owner] = "pump"]
                       ELSE UNCHANGED <<mutex, pc>>
    /\ UNCHANGED <<handle, pendingBytesWrittenValue, lastError, writeSequenceStarted,
                   bytesWrittenPending, winEventActPosted>>
    /\ UNCHANGED <<osVars, localVars>>
    /\ UNCHANGED <<handedUpTo, handedInOrder, totalConfirmed, emitted, suppressed, batch,
                   drained, stopReturned>>

\* setHandle() that assigns the handle without invoking the pump
setHandleImpl_NoPump ==
    /\ pc[Owner] = "idle"
    /\ ~stopped
    /\ mutex = NoThread
    /\ handle' = PipeHandle
    /\ UNCHANGED <<mutex, pc>>
    /\ UNCHANGED <<writeBuffer, pendingBytesWrittenValue, lastError, stopped,
                   writeSequenceStarted, bytesWrittenPending, winEventActPosted>>
    /\ UNCHANGED <<osVars, localVars, histVars>>

\* setHandle(): Q_ASSERT(!stopped) is its precondition; the handle is
\* assigned and the pump entered under the lock
setHandleImpl ==
    /\ pc[Owner] = "idle"
    /\ ~stopped
    /\ mutex = NoThread
    /\ handle' = PipeHandle
    /\ mutex' = Owner
    /\ pc' = [pc EXCEPT ![Owner] = "pump"]
    /\ UNCHANGED <<writeBuffer, pendingBytesWrittenValue, lastError, stopped,
                   writeSequenceStarted, bytesWrittenPending, winEventActPosted>>
    /\ UNCHANGED <<osVars, localVars, histVars>>

\* setHandle() as the writer's lifecycle has it: called once, on a writer
\* constructed without a handle
setHandle ==
    /\ handle = INVALID_HANDLE_VALUE
    /\ setHandleImpl

\* setHandle() called again on a writer that has its handle
setHandleAgain ==
    /\ handle # INVALID_HANDLE_VALUE
    /\ Len(osRequests) < MaxRequests
    /\ setHandleImpl

\* the block of n bytes that continues the stream of write() arguments where
\* the bytes handed to WriteFile so far end
Continues(n) == [i \in 1..n |-> handedUpTo + i]

\* what WriteFile can answer: done, failed, or pending
WriteFileResults == {ERROR_SUCCESS, ERROR_PIPE_NOT_CONNECTED, ERROR_IO_PENDING}

\* startAsyncWriteLocked() that leaves the loop after one WriteFile
startAsyncWriteLocked_NoLoop(t) ==
    /\ pc[t] = "pump"
    /\ mutex = t
    /\ writeBuffer # <<>>
    /\ IF handedInOrder /\ Head(writeBuffer) = Continues(Len(Head(writeBuffer)))
       THEN /\ handedUpTo' = handedUpTo + Len(Head(writeBuffer))
            /\ UNCHANGED handedInOrder
       ELSE /\ handedInOrder' = FALSE
            /\ UNCHANGED handedUpTo
    /\ eventHandle' = FALSE
    /\ \E errorCode \in WriteFileResults :
          IF errorCode = ERROR_IO_PENDING
          THEN /\ writeSequenceStarted' = TRUE
               /\ waitObject' = TRUE
               /\ overlapped' = [errorCode |-> ERROR_IO_PENDING, bytes |-> 0]
               /\ osRequests' = Append(osRequests,
                                       [data |-> Head(writeBuffer), canceled |-> FALSE])
               /\ pc' = [pc EXCEPT ![t] = "pump_break"]
               /\ UNCHANGED <<writeBuffer, pendingBytesWrittenValue, lastError,
                              bytesWrittenPending, totalConfirmed, batch>>
          ELSE /\ overlapped' = [errorCode |-> errorCode,
                                 bytes |-> IF errorCode = ERROR_SUCCESS
                                           THEN Len(Head(writeBuffer)) ELSE 0]
               /\ writeCompleted(errorCode, overlapped'.bytes)
               /\ pc' = [pc EXCEPT ![t] = "pump_break"]
               /\ UNCHANGED <<writeSequenceStarted, waitObject, osRequests>>
    /\ UNCHANGED <<handle, stopped, winEventActPosted, mutex, syncHandle, postedEvents>>
    /\ UNCHANGED localVars
    /\ UNCHANGED <<totalWritten, totalEnqueued, emitted, suppressed, drained, stopReturned>>

\* startAsyncWriteLocked(): one iteration of the while loop, run by thread t;
\* WriteFile completes at once, fails at once, or is left pending
startAsyncWriteLocked(t) ==
    /\ pc[t] = "pump"
    /\ mutex = t
    /\ writeBuffer # <<>>
    /\ IF handedInOrder /\ Head(writeBuffer) = Continues(Len(Head(writeBuffer)))
       THEN /\ handedUpTo' = handedUpTo + Len(Head(writeBuffer))
            /\ UNCHANGED handedInOrder
       ELSE /\ handedInOrder' = FALSE
            /\ UNCHANGED handedUpTo
    /\ eventHandle' = FALSE
    /\ \E errorCode \in WriteFileResults :
          IF errorCode = ERROR_IO_PENDING
          THEN /\ writeSequenceStarted' = TRUE
               /\ waitObject' = TRUE
               /\ overlapped' = [errorCode |-> ERROR_IO_PENDING, bytes |-> 0]
               /\ osRequests' = Append(osRequests,
                                       [data |-> Head(writeBuffer), canceled |-> FALSE])
               /\ pc' = [pc EXCEPT ![t] = "pump_break"]
               /\ UNCHANGED <<writeBuffer, pendingBytesWrittenValue, lastError,
                              bytesWrittenPending, totalConfirmed, batch>>
          ELSE /\ overlapped' = [errorCode |-> errorCode,
                                 bytes |-> IF errorCode = ERROR_SUCCESS
                                           THEN Len(Head(writeBuffer)) ELSE 0]
               /\ writeCompleted(errorCode, overlapped'.bytes)
               /\ pc' = [pc EXCEPT ![t] = IF writeCompletedOk(errorCode)
                                          THEN "pump" ELSE "pump_break"]
               /\ UNCHANGED <<writeSequenceStarted, waitObject, osRequests>>
    /\ UNCHANGED <<handle, stopped, winEventActPosted, mutex, syncHandle, postedEvents>>
    /\ UNCHANGED localVars
    /\ UNCHANGED <<totalWritten, totalEnqueued, emitted, suppressed, drained, stopReturned>>

\* startAsyncWriteLocked() that posts the event without setting
\* winEventActPosted
startAsyncWriteUnlock_PostsUnmarked(t) ==
    /\ mutex = t
    /\ \/ pc[t] = "pump" /\ writeBuffer = <<>>
       \/ pc[t] = "pump_break"
    /\ mutex' = NoThread
    /\ IF ~bytesWrittenPending
       THEN /\ pc' = [pc EXCEPT ![t] = "idle"]
            /\ UNCHANGED winEventActPosted
       ELSE IF ~winEventActPosted
       THEN /\ UNCHANGED winEventActPosted
            /\ pc' = [pc EXCEPT ![t] = "postEvent"]
       ELSE /\ pc' = [pc EXCEPT ![t] = "SetEvent"]
            /\ UNCHANGED winEventActPosted
    /\ UNCHANGED <<handle, writeBuffer, pendingBytesWrittenValue, lastError, stopped,
                   writeSequenceStarted, bytesWrittenPending>>
    /\ UNCHANGED <<osVars, localVars, histVars>>

\* startAsyncWriteLocked() that goes on to postEvent and SetEvent without
\* locker->unlock()
startAsyncWriteUnlock_KeepsLock(t) ==
    /\ mutex = t
    /\ \/ pc[t] = "pump" /\ writeBuffer = <<>>
       \/ pc[t] = "pump_break"
    /\ mutex' = IF bytesWrittenPending THEN t ELSE NoThread
    /\ IF ~bytesWrittenPending
       THEN /\ pc' = [pc EXCEPT ![t] = "idle"]
            /\ UNCHANGED winEventActPosted
       ELSE IF ~winEventActPosted
       THEN /\ winEventActPosted' = TRUE
            /\ pc' = [pc EXCEPT ![t] = "postEvent"]
       ELSE /\ pc' = [pc EXCEPT ![t] = "SetEvent"]
            /\ UNCHANGED winEventActPosted
    /\ UNCHANGED <<handle, writeBuffer, pendingBytesWrittenValue, lastError, stopped,
                   writeSequenceStarted, bytesWrittenPending>>
    /\ UNCHANGED <<osVars, localVars, histVars>>

\* startAsyncWriteLocked() that marks the notification as posted and then
\* does not post it
startAsyncWriteUnlock_NoPost(t) ==
    /\ mutex = t
    /\ \/ pc[t] = "pump" /\ writeBuffer = <<>>
       \/ pc[t] = "pump_break"
    /\ mutex' = NoThread
    /\ IF ~bytesWrittenPending
       THEN /\ pc' = [pc EXCEPT ![t] = "idle"]
            /\ UNCHANGED winEventActPosted
       ELSE /\ winEventActPosted' = TRUE
            /\ pc' = [pc EXCEPT ![t] = "SetEvent"]
    /\ UNCHANGED <<handle, writeBuffer, pendingBytesWrittenValue, lastError, stopped,
                   writeSequenceStarted, bytesWrittenPending>>
    /\ UNCHANGED <<osVars, localVars, histVars>>

\* startAsyncWriteLocked(): after the loop, up to the unlock
startAsyncWriteUnlock(t) ==
    /\ mutex = t
    /\ \/ pc[t] = "pump" /\ writeBuffer = <<>>
       \/ pc[t] = "pump_break"
    /\ mutex' = NoThread
    /\ IF ~bytesWrittenPending
       THEN /\ pc' = [pc EXCEPT ![t] = "idle"]
            /\ UNCHANGED winEventActPosted
       ELSE IF ~winEventActPosted
       THEN /\ winEventActPosted' = TRUE
            /\ pc' = [pc EXCEPT ![t] = "postEvent"]
       ELSE /\ pc' = [pc EXCEPT ![t] = "SetEvent"]
            /\ UNCHANGED winEventActPosted
    /\ UNCHANGED <<handle, writeBuffer, pendingBytesWrittenValue, lastError, stopped,
                   writeSequenceStarted, bytesWrittenPending>>
    /\ UNCHANGED <<osVars, localVars, histVars>>

\* startAsyncWriteLocked(): QCoreApplication::postEvent(this, WinEventAct)
postEvent(t) ==
    /\ pc[t] = "postEvent"
    /\ postedEvents' = postedEvents + 1
    /\ pc' = [pc EXCEPT ![t] = "SetEvent"]
    /\ UNCHANGED <<syncHandle, eventHandle, waitObject, overlapped, osRequests>>
    /\ UNCHANGED <<writerVars, localVars, histVars, mutex>>

\* startAsyncWriteLocked(): SetEvent(syncHandle)
pumpSetEvent(t) ==
    /\ pc[t] = "SetEvent"
    /\ syncHandle' = TRUE
    /\ pc' = [pc EXCEPT ![t] = "idle"]
    /\ UNCHANGED <<eventHandle, waitObject, overlapped, osRequests, postedEvents>>
    /\ UNCHANGED <<writerVars, localVars, histVars, mutex>>

\* CancelIoEx(handle, &overlapped): marks the pending requests of this
\* OVERLAPPED for cancellation; they complete later
CancelIoEx(reqs) == [i \in 1..Len(reqs) |-> [reqs[i] EXCEPT !.canceled = TRUE]]

\* stop() that sets `stopped` only when it cancels an operation
stop_FlagInsideIf ==
    /\ pc[Owner] = "idle"
    /\ ~stopped
    /\ mutex = NoThread
    /\ IF writeSequenceStarted
       THEN /\ stopped' = TRUE
            /\ waitObject' = FALSE
            /\ osRequests' = CancelIoEx(osRequests)
            /\ writeSequenceStarted' = FALSE
       ELSE UNCHANGED <<stopped, waitObject, osRequests, writeSequenceStarted>>
    /\ pc' = [pc EXCEPT ![Owner] = "stop_wait"]
    /\ UNCHANGED <<handle, writeBuffer, pendingBytesWrittenValue, lastError,
                   bytesWrittenPending, winEventActPosted>>
    /\ UNCHANGED <<syncHandle, eventHandle, overlapped, postedEvents>>
    /\ UNCHANGED <<localVars, mutex>>
    /\ UNCHANGED <<handedUpTo, handedInOrder, totalWritten, totalEnqueued, totalConfirmed, emitted,
                   suppressed, batch, drained, stopReturned>>

\* stop(): the test of `stopped`, then mutex.lock() ... mutex.unlock()
stop ==
    /\ pc[Owner] = "idle"
    /\ ~stopped
    /\ mutex = NoThread
    /\ stopped' = TRUE
    /\ IF writeSequenceStarted
       THEN /\ waitObject' = FALSE
            /\ osRequests' = CancelIoEx(osRequests)
            /\ writeSequenceStarted' = FALSE
       ELSE UNCHANGED <<waitObject, osRequests, writeSequenceStarted>>
    /\ pc' = [pc EXCEPT ![Owner] = "stop_wait"]
    /\ UNCHANGED <<handle, writeBuffer, pendingBytesWrittenValue, lastError,
                   bytesWrittenPending, winEventActPosted>>
    /\ UNCHANGED <<syncHandle, eventHandle, overlapped, postedEvents>>
    /\ UNCHANGED <<localVars, mutex>>
    /\ UNCHANGED <<handedUpTo, handedInOrder, totalWritten, totalEnqueued, totalConfirmed, emitted,
                   suppressed, batch, drained, stopReturned>>

\* stop() on a stopped writer: if (stopped) return
stopReturns ==
    /\ pc[Owner] = "idle"
    /\ stopped
    /\ UNCHANGED vars

\* stop(): WaitForThreadpoolWaitCallbacks(waitObject, TRUE) returns once no
\* callback is running
stopWait ==
    /\ pc[Owner] = "stop_wait"
    /\ \A w \in Workers : pc[w] = "idle"
    /\ pc' = [pc EXCEPT ![Owner] = "idle"]
    /\ stopReturned' = TRUE
    /\ UNCHANGED <<writerVars, osVars, localVars, mutex>>
    /\ UNCHANGED <<handedUpTo, handedInOrder, totalWritten, totalEnqueued, totalConfirmed,
                   emitted, suppressed, batch, drained>>

\* consumePendingAndEmit(): ResetEvent(syncHandle), before the lock.  With
\* allow = TRUE it is event() handling a posted QEvent::WinEventAct
consumePendingAndEmit(allow) ==
    /\ pc[Owner] = "idle"
    /\ allow => postedEvents > 0
    /\ postedEvents' = IF allow THEN postedEvents - 1 ELSE postedEvents
    /\ syncHandle' = FALSE
    /\ drained' = <<>>
    /\ allowWinActPosting' = allow
    /\ pc' = [pc EXCEPT ![Owner] = "consume_lock"]
    /\ UNCHANGED <<eventHandle, waitObject, overlapped, osRequests>>
    /\ UNCHANGED <<writerVars, numberOfBytesWritten, cbResult, mutex>>
    /\ UNCHANGED <<handedUpTo, handedInOrder, totalWritten, totalEnqueued, totalConfirmed, emitted,
                   suppressed, batch, stopReturned>>

\* consumePendingAndEmit() that takes the snapshot without zeroing the count
consumeLocked_KeepsPending ==
    /\ pc[Owner] = "consume_lock"
    /\ mutex = NoThread
    /\ winEventActPosted' = IF allowWinActPosting THEN FALSE ELSE winEventActPosted
    /\ allowWinActPosting' = FALSE
    /\ IF ~bytesWrittenPending
       THEN /\ pc' = [pc EXCEPT ![Owner] = "idle"]
            /\ UNCHANGED <<bytesWrittenPending, numberOfBytesWritten, batch, drained>>
       ELSE /\ bytesWrittenPending' = FALSE
            /\ numberOfBytesWritten' = pendingBytesWrittenValue
            /\ drained' = batch
            /\ batch' = <<>>
            /\ pc' = [pc EXCEPT ![Owner] = "emit"]
    /\ UNCHANGED <<handle, writeBuffer, lastError, stopped, writeSequenceStarted,
                   pendingBytesWrittenValue>>
    /\ UNCHANGED <<osVars, cbResult, mutex>>
    /\ UNCHANGED <<handedUpTo, handedInOrder, totalWritten, totalEnqueued, totalConfirmed,
                   emitted, suppressed, stopReturned>>

\* consumePendingAndEmit() without locker.unlock() before the emission
consumeLocked_HoldsLock ==
    /\ pc[Owner] = "consume_lock"
    /\ mutex = NoThread
    /\ winEventActPosted' = IF allowWinActPosting THEN FALSE ELSE winEventActPosted
    /\ allowWinActPosting' = FALSE
    /\ IF ~bytesWrittenPending
       THEN /\ pc' = [pc EXCEPT ![Owner] = "idle"]
            /\ UNCHANGED <<bytesWrittenPending, pendingBytesWrittenValue,
                           numberOfBytesWritten, batch, drained>>
       ELSE /\ bytesWrittenPending' = FALSE
            /\ numberOfBytesWritten' = pendingBytesWrittenValue
            /\ drained' = batch
            /\ batch' = <<>>
            /\ pendingBytesWrittenValue' = 0
            /\ pc' = [pc EXCEPT ![Owner] = "emit"]
    /\ UNCHANGED <<handle, writeBuffer, lastError, stopped, writeSequenceStarted>>
    /\ mutex' = IF bytesWrittenPending THEN Owner ELSE NoThread
    /\ UNCHANGED <<osVars, cbResult>>
    /\ UNCHANGED <<handedUpTo, handedInOrder, totalWritten, totalEnqueued, totalConfirmed,
                   emitted, suppressed, stopReturned>>

\* consumePendingAndEmit(): QMutexLocker locker(&mutex) ... locker.unlock()
consumeLocked ==
    /\ pc[Owner] = "consume_lock"
    /\ mutex = NoThread
    /\ winEventActPosted' = IF allowWinActPosting THEN FALSE ELSE winEventActPosted
    /\ allowWinActPosting' = FALSE
    /\ IF ~bytesWrittenPending
       THEN /\ pc' = [pc EXCEPT ![Owner] = "idle"]
            /\ UNCHANGED <<bytesWrittenPending, pendingBytesWrittenValue,
                           numberOfBytesWritten, batch, drained>>
       ELSE /\ bytesWrittenPending' = FALSE
            /\ numberOfBytesWritten' = pendingBytesWrittenValue
            /\ drained' = batch
            /\ batch' = <<>>
            /\ pendingBytesWrittenValue' = 0
            /\ pc' = [pc EXCEPT ![Owner] = "emit"]
    /\ UNCHANGED <<handle, writeBuffer, lastError, stopped, writeSequenceStarted>>
    /\ UNCHANGED <<osVars, cbResult, mutex>>
    /\ UNCHANGED <<handedUpTo, handedInOrder, totalWritten, totalEnqueued, totalConfirmed,
                   emitted, suppressed, stopReturned>>

\* consumePendingAndEmit() that emits without the test of `stopped`
emitBytesWritten_IgnoresStopped ==
    /\ pc[Owner] = "emit"
    /\ emitted' = Append(emitted, numberOfBytesWritten)
    /\ UNCHANGED suppressed
    /\ numberOfBytesWritten' = 0
    /\ pc' = [pc EXCEPT ![Owner] = "idle"]
    /\ UNCHANGED <<writerVars, osVars, allowWinActPosting, cbResult, mutex>>
    /\ UNCHANGED <<handedUpTo, handedInOrder, totalWritten, totalEnqueued, totalConfirmed,
                   batch, drained, stopReturned>>

\* consumePendingAndEmit(): if (stopped) return false; emit bytesWritten(n)
emitBytesWritten ==
    /\ pc[Owner] = "emit"
    /\ IF stopped
       THEN /\ suppressed' = suppressed + numberOfBytesWritten
            /\ UNCHANGED emitted
       ELSE /\ emitted' = Append(emitted, numberOfBytesWritten)
            /\ UNCHANGED suppressed
    /\ numberOfBytesWritten' = 0
    /\ pc' = [pc EXCEPT ![Owner] = "idle"]
    /\ UNCHANGED <<writerVars, osVars, allowWinActPosting, cbResult, mutex>>
    /\ UNCHANGED <<handedUpTo, handedInOrder, totalWritten, totalEnqueued, totalConfirmed,
                   batch, drained, stopReturned>>

----------------------------------------------------------------------------
\* the OS completes a pending request: it stores the result in the
\* OVERLAPPED and signals eventHandle.  A request marked for cancellation
\* ends aborted, or completes if the cancellation came too late
osComplete(i) ==
    /\ i \in 1..Len(osRequests)
    /\ \E errorCode \in IF osRequests[i].canceled
                        THEN {ERROR_OPERATION_ABORTED, ERROR_SUCCESS}
                        ELSE {ERROR_SUCCESS, ERROR_PIPE_NOT_CONNECTED} :
          overlapped' = [errorCode |-> errorCode,
                         bytes |-> IF errorCode = ERROR_SUCCESS
                                   THEN Len(osRequests[i].data) ELSE 0]
    /\ osRequests' = [j \in 1..(Len(osRequests) - 1) |->
                         IF j < i THEN osRequests[j] ELSE osRequests[j + 1]]
    /\ eventHandle' = TRUE
    /\ UNCHANGED <<syncHandle, waitObject, postedEvents>>
    /\ UNCHANGED <<writerVars, localVars, histVars, mutex, pc>>

\* the thread pool starts waitCallback(): the registered wait is satisfied
\* by eventHandle (one-shot wait, auto-reset event)
waitCallbackStart(w) ==
    /\ pc[w] = "idle"
    /\ waitObject
    /\ eventHandle
    /\ waitObject' = FALSE
    /\ eventHandle' = FALSE
    /\ pc' = [pc EXCEPT ![w] = "GetOverlappedResult"]
    /\ UNCHANGED <<syncHandle, overlapped, osRequests, postedEvents>>
    /\ UNCHANGED <<writerVars, localVars, histVars, mutex>>

\* waitCallback(): GetOverlappedResult(handle, &overlapped, &n, FALSE)
GetOverlappedResult(w) ==
    /\ pc[w] = "GetOverlappedResult"
    /\ cbResult' = [cbResult EXCEPT ![w] =
                       IF overlapped.errorCode = ERROR_IO_PENDING
                       THEN [errorCode |-> ERROR_IO_INCOMPLETE, bytes |-> 0]
                       ELSE overlapped]
    /\ pc' = [pc EXCEPT ![w] = "callback_lock"]
    /\ UNCHANGED <<writerVars, osVars, allowWinActPosting, numberOfBytesWritten,
                   histVars, mutex>>

\* waitCallback() that does not re-enter the pump after a successful completion
waitCallback_NoPump(w) ==
    /\ pc[w] = "callback_lock"
    /\ mutex = NoThread
    /\ cbResult' = [cbResult EXCEPT ![w] = NoResult]
    /\ IF stopped
       THEN /\ pc' = [pc EXCEPT ![w] = "idle"]
            /\ UNCHANGED <<writeSequenceStarted, bytesWrittenPending,
                           pendingBytesWrittenValue, writeBuffer, lastError,
                           totalConfirmed, batch, mutex>>
       ELSE /\ writeSequenceStarted' = FALSE
            /\ writeCompleted(cbResult[w].errorCode, cbResult[w].bytes)
            /\ mutex' = NoThread
            /\ pc' = [pc EXCEPT ![w] = IF writeCompletedOk(cbResult[w].errorCode)
                                       THEN "idle" ELSE "callback_SetEvent"]
    /\ UNCHANGED <<handle, stopped, winEventActPosted>>
    /\ UNCHANGED <<osVars, allowWinActPosting, numberOfBytesWritten>>
    /\ UNCHANGED <<handedUpTo, handedInOrder, totalWritten, totalEnqueued, emitted, suppressed,
                   drained, stopReturned>>

\* waitCallback() that signals syncHandle when it finds the writer stopped
waitCallback_StoppedSignals(w) ==
    /\ pc[w] = "callback_lock"
    /\ mutex = NoThread
    /\ cbResult' = [cbResult EXCEPT ![w] = NoResult]
    /\ IF stopped
       THEN /\ pc' = [pc EXCEPT ![w] = "callback_SetEvent"]
            /\ UNCHANGED <<writeSequenceStarted, bytesWrittenPending,
                           pendingBytesWrittenValue, writeBuffer, lastError,
                           totalConfirmed, batch, mutex>>
       ELSE /\ writeSequenceStarted' = FALSE
            /\ writeCompleted(cbResult[w].errorCode, cbResult[w].bytes)
            /\ IF writeCompletedOk(cbResult[w].errorCode)
               THEN /\ mutex' = w
                    /\ pc' = [pc EXCEPT ![w] = "pump"]
               ELSE /\ mutex' = NoThread
                    /\ pc' = [pc EXCEPT ![w] = "callback_SetEvent"]
    /\ UNCHANGED <<handle, stopped, winEventActPosted>>
    /\ UNCHANGED <<osVars, allowWinActPosting, numberOfBytesWritten>>
    /\ UNCHANGED <<handedUpTo, handedInOrder, totalWritten, totalEnqueued, emitted, suppressed,
                   drained, stopReturned>>

\* waitCallback() without the test of `stopped`
waitCallback_IgnoresStopped(w) ==
    /\ pc[w] = "callback_lock"
    /\ mutex = NoThread
    /\ cbResult' = [cbResult EXCEPT ![w] = NoResult]
    /\ writeSequenceStarted' = FALSE
    /\ writeCompleted(cbResult[w].errorCode, cbResult[w].bytes)
    /\ IF writeCompletedOk(cbResult[w].errorCode)
       THEN /\ mutex' = w
            /\ pc' = [pc EXCEPT ![w] = "pump"]
       ELSE /\ mutex' = NoThread
            /\ pc' = [pc EXCEPT ![w] = "callback_SetEvent"]
    /\ UNCHANGED <<handle, stopped, winEventActPosted>>
    /\ UNCHANGED <<osVars, allowWinActPosting, numberOfBytesWritten>>
    /\ UNCHANGED <<handedUpTo, handedInOrder, totalWritten, totalEnqueued, emitted, suppressed,
                   drained, stopReturned>>

\* waitCallback(): QMutexLocker locker(&pipeWriter->mutex) up to the pump
\* or the unlock
waitCallback(w) ==
    /\ pc[w] = "callback_lock"
    /\ mutex = NoThread
    /\ cbResult' = [cbResult EXCEPT ![w] = NoResult]
    /\ IF stopped
       THEN /\ pc' = [pc EXCEPT ![w] = "idle"]
            /\ UNCHANGED <<writeSequenceStarted, bytesWrittenPending,
                           pendingBytesWrittenValue, writeBuffer, lastError,
                           totalConfirmed, batch, mutex>>
       ELSE /\ writeSequenceStarted' = FALSE
            /\ writeCompleted(cbResult[w].errorCode, cbResult[w].bytes)
            /\ IF writeCompletedOk(cbResult[w].errorCode)
               THEN /\ mutex' = w
                    /\ pc' = [pc EXCEPT ![w] = "pump"]
               ELSE /\ mutex' = NoThread
                    /\ pc' = [pc EXCEPT ![w] = "callback_SetEvent"]
    /\ UNCHANGED <<handle, stopped, winEventActPosted>>
    /\ UNCHANGED <<osVars, allowWinActPosting, numberOfBytesWritten>>
    /\ UNCHANGED <<handedUpTo, handedInOrder, totalWritten, totalEnqueued, emitted, suppressed,
                   drained, stopReturned>>

\* waitCallback() that returns after a failure without SetEvent
callbackSetEvent_NoSignal(w) ==
    /\ pc[w] = "callback_SetEvent"
    /\ pc' = [pc EXCEPT ![w] = "idle"]
    /\ UNCHANGED <<syncHandle, eventHandle, waitObject, overlapped, osRequests, postedEvents>>
    /\ UNCHANGED <<writerVars, localVars, histVars, mutex>>

\* waitCallback(): SetEvent(pipeWriter->syncHandle) after a failure
callbackSetEvent(w) ==
    /\ pc[w] = "callback_SetEvent"
    /\ syncHandle' = TRUE
    /\ pc' = [pc EXCEPT ![w] = "idle"]
    /\ UNCHANGED <<eventHandle, waitObject, overlapped, osRequests, postedEvents>>
    /\ UNCHANGED <<writerVars, localVars, histVars, mutex>>

----------------------------------------------------------------------------
Next ==
    \/ \E n \in 1..MaxBytes : writeImpl(n)
    \/ setHandle
    \/ \E t \in Threads : startAsyncWriteLocked(t)
    \/ \E t \in Threads : startAsyncWriteUnlock(t)
    \/ \E t \in Threads : postEvent(t)
    \/ \E t \in Threads : pumpSetEvent(t)
    \/ stop
    \/ stopReturns
    \/ stopWait
    \/ \E allow \in BOOLEAN : consumePendingAndEmit(allow)
    \/ consumeLocked
    \/ emitBytesWritten
    \/ \E i \in 1..Len(osRequests) : osComplete(i)
    \/ \E w \in Workers : waitCallbackStart(w)
    \/ \E w \in Workers : GetOverlappedResult(w)
    \/ \E w \in Workers : waitCallback(w)
    \/ \E w \in Workers : callbackSetEvent(w)

Spec == Init /\ [][Next]_vars

\* Every thread that can take a step eventually takes it, and the owner's
\* event loop eventually handles a posted QEvent::WinEventAct.  Nothing is
\* assumed of the owner's calls of write(), setHandle(), stop() and the
\* direct consumePendingAndEmit(false), nor of the OS completing a request.
Fairness ==
    /\ SF_vars(consumePendingAndEmit(TRUE))
    /\ WF_vars(consumeLocked)
    /\ WF_vars(emitBytesWritten)
    /\ WF_vars(stopWait)
    /\ \A t \in Threads : /\ WF_vars(startAsyncWriteLocked(t))
                          /\ WF_vars(startAsyncWriteUnlock(t))
                          /\ WF_vars(postEvent(t))
                          /\ WF_vars(pumpSetEvent(t))
    /\ \A w \in Workers : /\ WF_vars(waitCallbackStart(w))
                          /\ WF_vars(GetOverlappedResult(w))
                          /\ WF_vars(waitCallback(w))
                          /\ WF_vars(callbackSetEvent(w))

FairSpec == Init /\ [][Next]_vars /\ Fairness

\* the writer that is never stopped, with setHandle() also called on a writer
\* that has its handle
NextSetHandleAgain ==
    \/ \E n \in 1..MaxBytes : writeImpl(n)
    \/ setHandle
    \/ setHandleAgain
    \/ \E t \in Threads : startAsyncWriteLocked(t)
    \/ \E t \in Threads : startAsyncWriteUnlock(t)
    \/ \E t \in Threads : postEvent(t)
    \/ \E t \in Threads : pumpSetEvent(t)
    \/ \E allow \in BOOLEAN : consumePendingAndEmit(allow)
    \/ consumeLocked
    \/ emitBytesWritten
    \/ \E i \in 1..Len(osRequests) : osComplete(i)
    \/ \E w \in Workers : waitCallbackStart(w)
    \/ \E w \in Workers : GetOverlappedResult(w)
    \/ \E w \in Workers : waitCallback(w)
    \/ \E w \in Workers : callbackSetEvent(w)

SpecSetHandleAgain == Init /\ [][NextSetHandleAgain]_vars

\* Scenario 1 of the writer's life: constructed without a handle, write()
\* called while it has none, then setHandle(), and every WriteFile of the
\* pump completes synchronously and successfully
InitNoHandle == Init /\ handle = INVALID_HANDLE_VALUE

writeBeforeHandle(n) == handle = INVALID_HANDLE_VALUE /\ writeImpl(n)

WriteFileSync(t) == startAsyncWriteLocked(t) /\ overlapped'.errorCode = ERROR_SUCCESS

NextScenario1 ==
    \/ \E n \in 1..MaxBytes : writeBeforeHandle(n)
    \/ setHandle
    \/ WriteFileSync(Owner)
    \/ startAsyncWriteUnlock(Owner)
    \/ postEvent(Owner)
    \/ pumpSetEvent(Owner)
    \/ \E allow \in BOOLEAN : consumePendingAndEmit(allow)
    \/ consumeLocked
    \/ emitBytesWritten

SpecScenario1 == InitNoHandle /\ [][NextScenario1]_vars

\* The writer constructed with its handle and never stopped, on a pipe where
\* every request succeeds: WriteFile completes at once or is left pending,
\* and a pending request completes successfully
InitWithHandle == Init /\ handle = PipeHandle

WriteFileOk(t) ==
    startAsyncWriteLocked(t) /\ overlapped'.errorCode \in {ERROR_SUCCESS, ERROR_IO_PENDING}

osCompleteOk(i) == osComplete(i) /\ overlapped'.errorCode = ERROR_SUCCESS

NextRunning ==
    \/ \E n \in 1..MaxBytes : writeImpl(n)
    \/ \E t \in Threads : WriteFileOk(t)
    \/ \E t \in Threads : startAsyncWriteUnlock(t)
    \/ \E t \in Threads : postEvent(t)
    \/ \E t \in Threads : pumpSetEvent(t)
    \/ \E allow \in BOOLEAN : consumePendingAndEmit(allow)
    \/ consumeLocked
    \/ emitBytesWritten
    \/ \E i \in 1..Len(osRequests) : osCompleteOk(i)
    \/ \E w \in Workers : waitCallbackStart(w)
    \/ \E w \in Workers : GetOverlappedResult(w)
    \/ \E w \in Workers : waitCallback(w)

\* every thread that can take a step eventually takes it, the owner's event
\* loop eventually handles a posted QEvent::WinEventAct, and the OS
\* eventually completes a pending request
FairnessRunning ==
    /\ SF_vars(consumePendingAndEmit(TRUE))
    /\ WF_vars(consumeLocked)
    /\ WF_vars(emitBytesWritten)
    /\ \A t \in Threads : /\ WF_vars(WriteFileOk(t))
                          /\ WF_vars(startAsyncWriteUnlock(t))
                          /\ WF_vars(postEvent(t))
                          /\ WF_vars(pumpSetEvent(t))
    /\ \A i \in 1..MaxRequests : WF_vars(osCompleteOk(i))
    /\ \A w \in Workers : /\ WF_vars(waitCallbackStart(w))
                          /\ WF_vars(GetOverlappedResult(w))
                          /\ WF_vars(waitCallback(w))

FairSpecRunning == InitWithHandle /\ [][NextRunning]_vars /\ FairnessRunning

TypeOK ==
    /\ handle \in {INVALID_HANDLE_VALUE, PipeHandle}
    /\ pendingBytesWrittenValue \in Nat
    /\ mutex \in Threads \cup {NoThread}
    /\ postedEvents \in Nat

----------------------------------------------------------------------------
\* C1: at most one write request issued by the writer is outstanding at the
\* OS at any time: WriteFile is never called while an earlier request has
\* neither completed nor finished being canceled.
C1_AtMostOneOutstanding == Len(osRequests) <= 1

\* C2: the bytes handed to WriteFile, over all requests in issue order, are
\* a prefix of the concatenated write() arguments: every request starts at
\* the byte after the last byte of the request before it.
C2_HandedIsPrefix == handedInOrder /\ handedUpTo <= totalWritten

RECURSIVE SeqSum(_)
SeqSum(q) == IF q = <<>> THEN 0 ELSE Head(q) + SeqSum(Tail(q))

\* the total reported through bytesWritten
Reported == SeqSum(emitted)

\* every queued notification has been delivered and no drain is under way
Drained ==
    /\ postedEvents = 0
    /\ pc[Owner] \notin {"consume_lock", "emit"}
    /\ \A t \in Threads : pc[t] # "postEvent"
    /\ ~bytesWrittenPending

IssuesWriteFile == \E t \in Threads : startAsyncWriteLocked(t)

\* a step that is a call of write()
CallsWrite == \E n \in 1..MaxBytes : writeImpl(n)

\* C5: once lastError is not success it keeps its value, a later write()
\* leaves the buffer, the flags and the pending count as they are, and no
\* step calls WriteFile again.
C5_ErrorIsSticky ==
    [][lastError # ERROR_SUCCESS =>
          /\ lastError' = lastError
          /\ ~IssuesWriteFile
          /\ CallsWrite => UNCHANGED <<writerVars, osVars, mutex, pc>>]_vars

C5_Witness ==
    /\ lastError # ERROR_SUCCESS
    /\ totalWritten > totalEnqueued
    /\ pendingBytesWrittenValue > 0
    /\ \A t \in Threads : pc[t] = "idle"

\* bytesToWrite()
bytesToWrite == BufSize(writeBuffer) + pendingBytesWrittenValue

\* C6: after a write failure has set lastError, bytesToWrite() eventually
\* becomes 0 and stays 0, provided the owner thread eventually handles its
\* queued notifications.
C6_PoisonedDrains == [](lastError # ERROR_SUCCESS => <>[](bytesToWrite = 0))

C6_Witness ==
    /\ lastError # ERROR_SUCCESS
    /\ pendingBytesWrittenValue > 0
    /\ winEventActPosted
    /\ postedEvents > 0
    /\ pc[Owner] = "idle"

\* C7 as stated: once a stop() has returned the stopped flag stays true and
\* no step calls WriteFile.
C7_StopIsPermanent == [][stopReturned => stopped' /\ ~IssuesWriteFile]_vars

\* C7 amended: stop() halts the writer until the next write().  While the
\* stopped flag is set no step calls WriteFile, and only a call of write()
\* clears the flag.
C7_StoppedUntilWrite ==
    [][/\ IssuesWriteFile => ~stopped
       /\ stopped /\ ~stopped' => CallsWrite]_vars

C7_Witness ==
    /\ stopReturned
    /\ ~stopped
    /\ writeSequenceStarted
    /\ pc[Owner] = "idle"

\* a step that is a call of stop()
CallsStop == stop \/ stopReturns

\* C8: stop() is idempotent: when stop() returns the stopped flag is set and
\* no operation is marked outstanding, and a stop() called on a stopped
\* writer changes nothing and requests no cancellation.
C8_StopIdempotent ==
    [][/\ stopWait => stopped' /\ ~writeSequenceStarted'
       /\ stopped /\ CallsStop => UNCHANGED <<writerVars, osVars, mutex, pc>>]_vars

C8_Witness ==
    /\ stopReturned
    /\ stopped
    /\ pc[Owner] = "idle"
    /\ \E i \in 1..Len(osRequests) : osRequests[i].canceled

\* C9: bytesWritten is emitted only while the writer is not stopped, so
\* after a stop() that no write() follows no bytesWritten fires.
C9_EmitOnlyWhileRunning == [][emitted' # emitted => ~stopped /\ ~stopped']_vars

C9_Witness ==
    /\ stopped
    /\ stopReturned
    /\ suppressed > 0
    /\ emitted = <<>>
    /\ pc[Owner] = "idle"
    /\ postedEvents = 0

\* C10: at most one notification is queued at any time, the pending count
\* is the sum of the byte counts confirmed since the last drain, and a
\* bytesWritten emission carries the sum of all the counts its drain took.
C10_Coalesces ==
    [][/\ postedEvents' <= 1
       /\ pendingBytesWrittenValue' = SeqSum(batch')
       /\ emitted' # emitted =>
             /\ drained # <<>>
             /\ emitted' = Append(emitted, SeqSum(drained))]_vars

C10_Witness ==
    /\ pc[Owner] = "idle"
    /\ Len(drained) >= 2
    /\ emitted = <<SeqSum(drained)>>
    /\ totalConfirmed = SeqSum(drained)
    /\ postedEvents = 0

\* C11: while the writer has no handle bytesToWrite() is the sum of the
\* lengths passed to write(); after setHandle() with every WriteFile
\* completing synchronously and successfully, bytesWritten fires at most
\* once, and once the pump has returned and the notification is delivered it
\* has fired exactly once with that sum and bytesToWrite() is 0.
C11_BufferThenOneNotification ==
    /\ handle = INVALID_HANDLE_VALUE =>
          /\ bytesToWrite = totalWritten
          /\ emitted = <<>>
    /\ Len(emitted) <= 1
    /\ handle = PipeHandle /\ Drained /\ pc[Owner] = "idle" =>
          /\ emitted = <<totalWritten>>
          /\ bytesToWrite = 0

C11_Witness ==
    /\ handle = PipeHandle
    /\ Drained
    /\ pc[Owner] = "idle"
    /\ Len(drained) >= 2
    /\ emitted = <<totalWritten>>
    /\ bytesToWrite = 0

\* the thread holding the lock can take its next step
LockHolderRuns ==
    \A t \in Threads :
        mutex = t => ENABLED (startAsyncWriteLocked(t) \/ startAsyncWriteUnlock(t))

\* C12: bytesWritten is never emitted while the owner thread holds the lock,
\* and the emission leaves the owner where a write() is processed as any
\* other; whoever holds the lock meanwhile can run on and release it, so a
\* write() called from a bytesWritten handler gets the lock.
C12_EmitOutsideLock ==
    [][/\ emitted' # emitted =>
             /\ mutex # Owner
             /\ mutex' # Owner
             /\ pc'[Owner] = "idle"
       /\ LockHolderRuns]_vars

C12_Witness ==
    /\ pc[Owner] = "pump"
    /\ mutex = Owner
    /\ writeBuffer # <<>>
    /\ Len(emitted) = 1
    /\ suppressed = 0
    /\ drained # <<>>
    /\ numberOfBytesWritten = 0

\* C13: a second setHandle() with the same handle issues no OS write
\* request of its own: the owner thread's pump calls WriteFile only while no
\* request is outstanding.
C13_SetHandleAgainIssuesNothing ==
    [][startAsyncWriteLocked(Owner) => ~writeSequenceStarted /\ osRequests = <<>>]_vars

\* C14: a completion callback that takes the lock while the writer is
\* stopped returns at once: the writer's fields, the events, the wait
\* registration, the requests at the OS and the queued notifications are
\* unchanged, the lock is free again, and nothing is left for it to do.
C14_StoppedCallbackIsNoOp ==
    [][\A w \in Workers :
          waitCallback(w) /\ stopped =>
              /\ UNCHANGED <<writerVars, osVars, mutex>>
              /\ UNCHANGED <<emitted, totalConfirmed, handedUpTo>>
              /\ pc'[w] = "idle"]_vars

C14_Witness ==
    /\ stopped
    /\ pc[Owner] = "stop_wait"
    /\ mutex = NoThread
    /\ \E w \in Workers : /\ pc[w] = "callback_lock"
                          /\ cbResult[w].errorCode = ERROR_SUCCESS
                          /\ cbResult[w].bytes > 0
    /\ writeBuffer # <<>>

\* C15: on a writer that has its handle and is never stopped, with every
\* request completing successfully, each byte accepted by write() is
\* eventually handed to WriteFile and eventually reported through
\* bytesWritten, whether or not an operation was outstanding when it was
\* accepted.
C15_AcceptedBytesGetWritten ==
    \A k \in 1..MaxBytes :
        (totalEnqueued >= k) ~> (handedUpTo >= k /\ Reported >= k)

C15_Witness ==
    /\ handedUpTo < totalEnqueued
    /\ writeSequenceStarted
    /\ Len(writeBuffer) = 2
    /\ lastError = ERROR_SUCCESS
    /\ \E w \in Workers : pc[w] = "callback_lock"

\* a worker thread has just recorded a write failure: in waitCallback, or
\* in the pump it entered from waitCallback
WorkerSawFailure ==
    /\ lastError # ERROR_SUCCESS
    /\ \E w \in Workers : pc[w] \in {"callback_SetEvent", "pump_break"}

\* a step that is a call of the drain consumePendingAndEmit()
CallsDrain == \E allow \in BOOLEAN : consumePendingAndEmit(allow)

SetsSyncEvent(t) == pumpSetEvent(t) \/ (t \in Workers /\ callbackSetEvent(t))

\* C17: a thread that calls SetEvent on syncHandle, in the pump or in the
\* callback after a failure, does not hold the lock.
C17_SetEventOutsideLock ==
    [][\A t \in Threads : SetsSyncEvent(t) => mutex # t /\ mutex' # t]_vars

C17_Witness ==
    /\ mutex = Owner
    /\ \E w \in Workers : pc[w] = "SetEvent"
    /\ ~syncHandle

\* a call of write() on a writer that has no handle and no recorded error
WritesWithoutHandle ==
    /\ CallsWrite
    /\ handle = INVALID_HANDLE_VALUE
    /\ lastError = ERROR_SUCCESS

\* what write() leaves alone when it only buffers, the stopped flag apart
WriteFrame ==
    UNCHANGED <<handle, pendingBytesWrittenValue, lastError, writeSequenceStarted,
                bytesWrittenPending, winEventActPosted, osVars, mutex, pc>>

\* C18 as stated: write() on a writer without a handle and without an error
\* appends its bytes to the buffer, calls no WriteFile and changes nothing
\* else, the stopped flag included.
C18_WriteWithoutHandleOnlyAppends ==
    [][WritesWithoutHandle =>
          /\ writeBuffer' = Append(writeBuffer, NextBytes(totalWritten' - totalWritten))
          /\ WriteFrame
          /\ UNCHANGED stopped]_vars

\* C18 amended: such a write() appends its bytes, calls no WriteFile, clears
\* the stopped flag, and changes nothing else.
C18_WriteWithoutHandleClearsStopped ==
    [][WritesWithoutHandle =>
          /\ writeBuffer' = Append(writeBuffer, NextBytes(totalWritten' - totalWritten))
          /\ WriteFrame
          /\ ~stopped']_vars

C18_Witness ==
    /\ handle = INVALID_HANDLE_VALUE
    /\ ~stopped
    /\ ~stopReturned
    /\ Len(writeBuffer) = 1
    /\ handedUpTo = 0
    /\ pc[Owner] = "idle"

\* C19: the precondition !stopped of setHandle() on a writer without a
\* handle: the flag is set before the first write(), every write() clears
\* it, only stop() sets it again, and after stop() it stays set until the
\* next write().
C19_SetHandlePrecondition ==
    [][/\ totalWritten = 0 => stopped
       /\ handle = INVALID_HANDLE_VALUE =>
             /\ CallsWrite => ~stopped'
             /\ ~stopped /\ stopped' => stop
       /\ stop => stopped'
       /\ stopped /\ ~stopped' => CallsWrite]_vars

C19_Witness ==
    /\ handle = INVALID_HANDLE_VALUE
    /\ stopReturned
    /\ ~stopped
    /\ pc[Owner] = "idle"
    /\ ENABLED setHandle

\* C20: whenever the lock is free, the handle is assigned, the writer is not
\* stopped and no error is recorded, a non-empty write buffer implies that
\* an operation is outstanding.
C20_PumpNeverStalls ==
    (/\ mutex = NoThread
     /\ handle # INVALID_HANDLE_VALUE
     /\ ~stopped
     /\ lastError = ERROR_SUCCESS
     /\ writeBuffer # <<>>) => writeSequenceStarted

C20_Witness ==
    /\ mutex = NoThread
    /\ handle # INVALID_HANDLE_VALUE
    /\ ~stopped
    /\ lastError = ERROR_SUCCESS
    /\ writeBuffer # <<>>
    /\ writeSequenceStarted
    /\ totalConfirmed > 0
    /\ osRequests # <<>>

\* a QEvent::WinEventAct is in the owner's queue, is about to be posted, or
\* is being handled by event() and has not taken the lock yet
NotificationDue ==
    \/ postedEvents > 0
    \/ \E t \in Threads : pc[t] = "postEvent"
    \/ pc[Owner] = "consume_lock" /\ allowWinActPosting

\* C21: whenever the lock is free, a confirmed byte count that waits to be
\* reported (bytesWrittenPending) has winEventActPosted set and a
\* notification queued, about to be posted or being handled.
C21_PendingHasNotification ==
    mutex = NoThread /\ bytesWrittenPending => winEventActPosted /\ NotificationDue

C21_Witness ==
    /\ mutex = NoThread
    /\ bytesWrittenPending
    /\ winEventActPosted
    /\ postedEvents = 1
    /\ Len(batch) = 1
    /\ drained # <<>>
    /\ pc[Owner] = "idle"
    /\ ~stopped

\* no thread is between its unlock and its SetEvent(syncHandle), and the
\* owner thread is not inside the drain
NoSignalUnderWay ==
    /\ \A t \in Threads : pc[t] \notin {"postEvent", "SetEvent", "callback_SetEvent"}
    /\ pc[Owner] \notin {"consume_lock", "emit"}

\* C22: whenever syncHandle is signaled, no thread is between its unlock and
\* its SetEvent and no drain is under way, the pending byte count is above 0
\* or an error is recorded.
C22_NoSpuriousSignal ==
    syncHandle /\ NoSignalUnderWay =>
        pendingBytesWrittenValue > 0 \/ lastError # ERROR_SUCCESS

====
